---- MODULE Spec2Model ----
(***************************************************************************)
(* mobx-when: the @when method decorator of src/index.ts.                  *)
(*                                                                         *)
(* One decorated class (one `target` prototype, one entry of `whenMap`)    *)
(* and its instances.  Decoration registers bindings in the class's        *)
(* dictionary and wraps the class's init / deinit hooks; the wrappers      *)
(* start and dispose mobx observations of the predicates.                  *)
(***************************************************************************)
EXTENDS Naturals, Sequences, FiniteSets

\* ------------------------------------------------------------------ bounds
\* Most calls of lifecycle hooks in one run.
MaxCalls == 3
\* Most bindings registered in the class's dictionary.
MaxBindings == 2

\* ------------------------------------------------------------ the universe
\* Instances of the decorated class.
Instances == {"a", "b"}

\* Property names under which the target may hold lifecycle hooks.
HookNames == {"componentDidMount", "componentWillUnmount", "start", "stop"}

\* The values `initFunctionName` / `deinitFunctionName` take.
InitFunctionNames == {"componentDidMount", "start"}
DeinitFunctionNames == {"componentWillUnmount", "stop"}

\* The hooks the class defines before any decorator runs: a React component
\* has the default two and neither "start" nor "stop".
DefinedHooks == {"componentDidMount", "componentWillUnmount"}

\* Names of decorated methods: string | symbol.
PropertyNames == {"load", "save", "symKey", "toString"}

\* propertyName is a symbol (typeof propertyName === 'symbol').
IsSymbol(propertyName) == propertyName = "symKey"

\* Names every object literal inherits from Object.prototype.
ObjectPrototypeNames == {"toString"}

\* Arguments a lifecycle hook is called with.
ArgLists == { <<>>, <<7>> }

\* The methods called by hand, and the arguments they are called with.
ManualNames == {"load", "symKey"}
ManualArgLists == { <<7>> }

\* What throws during a call of a lifecycle hook: nothing, the class's
\* original deinitializer, or the body of the method load.
Faults == {"none", "deinit", "load"}

\* The values of the global observable state.level.
Levels == 0..2

\* What `when(...)` is called with: a predicate and the bound parameters.
\*   pGlobal: () => state.level > 0
\*   pThis:   function () { return state.level > this.threshold }
Bindings ==
    { [ predicate |-> "pGlobal", parameters |-> <<1, 2>> ],
      [ predicate |-> "pThis", parameters |-> <<>> ] }

\* The field `threshold` of each instance, set by the constructor.
Threshold(this) == IF this = "a" THEN 0 ELSE 1

VARIABLES
    proto,        \* target[name] for the hook names: absent, original or a wrapper
    methodImpl,   \* target[propertyName]: the function installed under each method name
    whenMapHas,   \* whenMap.has(target)
    dictionary,   \* whenMap.get(target): the own properties, in insertion order
    subs,         \* the live mobx observations
    level,        \* the global observable state.level
    status,       \* per instance: which wrapper ran last ("fresh" when none did)
    paired,       \* per instance: its init / deinit calls have alternated so far
    calls,        \* how many lifecycle hooks have been called
    last,         \* the call just made and how it ended
    trace         \* what the call just made did, in order

vars == << proto, methodImpl, whenMapHas, dictionary, subs, level,
           status, paired, calls, last, trace >>

\* ---------------------------------------------------------------- helpers
\* The disposer field of a WhenInformation that was never assigned.
NoDisposer ==
    [ owner |-> "", key |-> "", n |-> 0, predicate |-> "",
      originalFunction |-> "", parameters |-> <<>> ]

\* The function a class body defines under a method name.
MethodBody(propertyName) == propertyName

\* The own keys of the dictionary.
OwnKeys(dict) == { dict[k].key : k \in 1..Len(dict) }

\* `propertyName in dictionary`: own or inherited from Object.prototype.
InOperator(propertyName, dict) ==
    \/ propertyName \in OwnKeys(dict)
    \/ propertyName \in ObjectPrototypeNames

\* `for (const propertyKey in map)` visits the enumerable string keys only.
ForInVisits(propertyKey) == ~IsSymbol(propertyKey)

\* predicate.call(this) with the observable at the given value.
Eval(predicate, this, lvl) ==
    IF predicate = "pGlobal" THEN lvl > 0 ELSE lvl > Threshold(this)

\* One entry of `trace`.
Event(ev, this, what, key, args, n) ==
    [ ev |-> ev, this |-> this, what |-> what, key |-> key,
      args |-> args, n |-> n ]

\* The configuration of a decoration that `last` records; none for other calls.
NoParams ==
    [ predicate |-> "", parameters |-> <<>>, initFunctionName |-> "",
      deinitFunctionName |-> "" ]

\* One value of `last`.
Call(op, this, name, args, params, result) ==
    [ op |-> op, this |-> this, name |-> name, args |-> args,
      params |-> params, result |-> result, fault |-> "none" ]

\* Wrappers that catch what their callees throw.
Caught(fault, what) == FALSE

\* Whether an exception thrown by `what` (the original deinitializer or
\* a method body) leaves the wrapper: the wrappers have no try / catch.
Propagates(fault, what) == fault = what

Init ==
    /\ proto = [ h \in HookNames |->
                  IF h \in DefinedHooks THEN "original" ELSE "absent" ]
    /\ methodImpl = [ p \in PropertyNames |-> MethodBody(p) ]
    /\ whenMapHas = FALSE
    /\ dictionary = <<>>
    /\ subs = {}
    /\ level \in Levels
    /\ status = [ i \in Instances |-> "fresh" ]
    /\ paired = [ i \in Instances |-> TRUE ]
    /\ calls = 0
    /\ last = Call("none", "", "", <<>>, NoParams, "")
    /\ trace = <<>>

\* ------------------------------------------------------------- decoration
\* `when(...)`: both call shapes end in the same four values (lines 117-122).
when(predicate, funcParams, initFunctionName, deinitFunctionName) ==
    [ predicate |-> predicate, parameters |-> funcParams,
      initFunctionName |-> initFunctionName,
      deinitFunctionName |-> deinitFunctionName ]

\* How `decorate` ends: the first decoration of a target checks the hooks.
DecorateOutcome(has, p, params) ==
    IF has THEN "return"
    ELSE IF p[params.initFunctionName] = "absent" THEN "throwInit"
    ELSE IF p[params.deinitFunctionName] = "absent" THEN "throwDeinit"
    ELSE "return"

\* The target's hooks after `decorate`: the first decoration of a target
\* defines the init wrapper, then the deinit wrapper, each only if it got
\* that far.
WrapHooks(has, p, params) ==
    IF has \/ p[params.initFunctionName] = "absent" THEN p
    ELSE IF p[params.deinitFunctionName] = "absent"
         THEN [ p EXCEPT ![params.initFunctionName] = "initWrapper" ]
         ELSE [ p EXCEPT ![params.initFunctionName] = "initWrapper",
                         ![params.deinitFunctionName] = "deinitWrapper" ]

\* whenMap.has(target) after `decorate`: the entry is set before the hooks
\* are looked at.
SetEntry(has) == TRUE

\* The WhenInformation a decoration records.
WhenInformation(propertyName, params, originalFunction) ==
    [ key |-> propertyName, predicate |-> params.predicate,
      originalFunction |-> originalFunction,
      parameters |-> params.parameters, disposer |-> NoDisposer ]

\* The dictionary after `decorate` got past the hooks.
Register(dict, propertyName, params, descriptor) ==
    IF InOperator(propertyName, dict) THEN dict
    ELSE Append(dict, WhenInformation(propertyName, params, descriptor.value))

\* A decorator that returned a descriptor of its own, wrapping the method.
DecorateReturnsWrapper(descriptor) == [ value |-> "whenWrapper" ]

\* What `decorate` returns when it does not throw.
DecorateReturn(descriptor) == descriptor

\* The decorator applied to one method of the class.  Decorators run while
\* the class is being defined, so before any instance exists.
Decorate(propertyName, params) ==
    /\ last.op \in {"none", "decorate"}
    /\ LET descriptor == [ value |-> methodImpl[propertyName] ]
           outcome == DecorateOutcome(whenMapHas, proto, params)
       IN  /\ outcome = "return" /\ ~InOperator(propertyName, dictionary)
                => Len(dictionary) < MaxBindings
           /\ whenMapHas' = SetEntry(whenMapHas)
           /\ proto' = WrapHooks(whenMapHas, proto, params)
           /\ dictionary' =
                 IF outcome = "return"
                 THEN Register(dictionary, propertyName, params, descriptor)
                 ELSE dictionary
           /\ methodImpl' =
                 IF outcome = "return"
                 THEN [ methodImpl EXCEPT
                          ![propertyName] = DecorateReturn(descriptor).value ]
                 ELSE methodImpl
           /\ last' = Call("decorate", "", propertyName, <<>>, params, outcome)
           /\ trace' = <<>>
    /\ UNCHANGED << subs, level, status, paired, calls >>

\* ------------------------------------------------------------- activation
\* A number for a new observation, which tells it from the live
\* observations of the same instance and key.
FreshN(this, key, live) ==
    LET used == { s.n : s \in { t \in live : t.owner = this /\ t.key = key } }
        free == { n \in 1..(Cardinality(used) + 1) : n \notin used }
    IN  CHOOSE n \in free : \A m \in free : n <= m

\* An observation whose predicate and method are bound to the prototype
\* the decorator was given, not to the instance.
ObserveOnPrototype(info, this, live) ==
    [ owner |-> "prototype", key |-> info.key,
      n |-> FreshN(this, info.key, live), predicate |-> info.predicate,
      originalFunction |-> info.originalFunction,
      parameters |-> info.parameters ]

\* computed(predicate.bind(this)).observe(listener): the observation, which
\* closes over the instance and the descriptor's fields.
Observe(info, this, live) ==
    [ owner |-> this, key |-> info.key, n |-> FreshN(this, info.key, live),
      predicate |-> info.predicate,
      originalFunction |-> info.originalFunction,
      parameters |-> info.parameters ]

\* An init wrapper that stores a new descriptor holding only the disposer.
StoreDisposerAsDescriptor(map, k, sub) ==
    [ map EXCEPT ![k] = [ key |-> @.key, predicate |-> "",
                          originalFunction |-> "", parameters |-> << >>,
                          disposer |-> sub ] ]

\* What the init wrapper stores in map[propertyKey].disposer.
StoreDisposer(map, k, sub) == [ map EXCEPT ![k].disposer = sub ]

\* The explicit check after observe(): fire now if the predicate holds.
ImmediateFire(info, this, lvl) ==
    IF Eval(info.predicate, this, lvl)
    THEN << Event("immediate", this, info.originalFunction, info.key,
                  info.parameters, 0) >>
    ELSE << >>

\* The loop of the init wrapper from the k-th own property on.  A method
\* body that throws ends the loop there.
RECURSIVE InitLoop(_, _, _, _, _, _, _)
InitLoop(k, this, map, live, tr, lvl, fault) ==
    IF k > Len(map)
    THEN [ map |-> map, live |-> live, tr |-> tr, threw |-> FALSE ]
    ELSE IF ~ForInVisits(map[k].key)
         THEN InitLoop(k + 1, this, map, live, tr, lvl, fault)
    ELSE LET info == map[k]
             sub == Observe(info, this, live)
             map1 == StoreDisposer(map, k, sub)
             live1 == live \cup {sub}
             fire == ImmediateFire(info, this, lvl)
             tr1 == tr \o << Event("observe", this, info.predicate,
                                   info.key, <<>>, sub.n) >>
                       \o fire
         IN  IF fire # << >> /\ Propagates(fault, info.key)
             THEN [ map |-> map1, live |-> live1, tr |-> tr1,
                    threw |-> TRUE ]
             ELSE InitLoop(k + 1, this, map1, live1, tr1, lvl, fault)

\* originalInitializer?.apply(this, params), the first statement of the wrapper.
CallOriginal(this, name, params) ==
    << Event("original", this, name, "", params, 0) >>

\* An init wrapper that ran its loop before the original initializer.
InitWrapperOriginalLast(this, name, params, map, live, lvl, fault) ==
    LET r == InitLoop(1, this, map, live, << >>, lvl, fault)
    IN  [ r EXCEPT !.tr = @ \o CallOriginal(this, name, params) ]

\* The init wrapper as a whole.
InitWrapper(this, name, params, map, live, lvl, fault) ==
    InitLoop(1, this, map, live, CallOriginal(this, name, params), lvl,
             fault)

\* Whether the wrappers have run alternately on the instance, init first,
\* and returned, once the wrapper of the given kind ran on it.
PairedAfter(st, pr, kind, threw) ==
    /\ pr
    /\ ~threw
    /\ IF kind = "initWrapper" THEN st \in {"fresh", "inactive"}
       ELSE st = "active"

\* A disposer that ends every observation of its instance on its binding.
DisposeEveryObservation(live, disposer) ==
    { s \in live : ~(s.owner = disposer.owner /\ s.key = disposer.key) }

\* ----------------------------------------------------------- deactivation
\* disposer?.() of the deinit wrapper: what it does to the live observations.
Dispose(live, disposer) == live \ {disposer}

\* What the deinit wrapper leaves in dict[propertyKey].disposer.
AfterDispose(dict, k) == dict

\* The loop of the deinit wrapper from the k-th own property on.
RECURSIVE DeinitLoop(_, _, _, _, _)
DeinitLoop(k, this, dict, live, tr) ==
    IF k > Len(dict)
    THEN [ map |-> dict, live |-> live, tr |-> tr, threw |-> FALSE ]
    ELSE IF ~ForInVisits(dict[k].key)
         THEN DeinitLoop(k + 1, this, dict, live, tr)
    ELSE LET disposer == dict[k].disposer
         IN  IF disposer = NoDisposer
             THEN DeinitLoop(k + 1, this, dict, live, tr)
             ELSE DeinitLoop(k + 1, this, AfterDispose(dict, k),
                             Dispose(live, disposer),
                             tr \o << Event("dispose", disposer.owner,
                                            disposer.predicate, disposer.key,
                                            <<>>, disposer.n) >>)

\* The deinit wrapper as a whole.  An original deinitializer that throws
\* ends the wrapper before its loop.
DeinitWrapper(this, name, params, dict, live, fault) ==
    IF Propagates(fault, "deinit")
    THEN [ map |-> dict, live |-> live,
           tr |-> CallOriginal(this, name, params), threw |-> TRUE ]
    ELSE DeinitLoop(1, this, dict, live, CallOriginal(this, name, params))

\* The method load is applied by a call of the init wrapper on `this`.
AppliesLoad(this, dict, lvl) ==
    \E k \in 1..Len(dict) :
        /\ dict[k].key = "load"
        /\ Eval(dict[k].predicate, this, lvl)

\* How a call of a hook ends.
Result(threw) == IF threw THEN "throw" ELSE "return"

\* instance[name](...params) for a hook name the class holds; `fault` is
\* what throws during the call.
CallHook(this, name, params, fault) ==
    /\ proto[name] # "absent"
    /\ fault = "load" =>
          proto[name] = "initWrapper" /\ AppliesLoad(this, dictionary, level)
    /\ fault = "deinit" => proto[name] = "deinitWrapper"
    /\ calls < MaxCalls
    /\ calls' = calls + 1
    /\ \/ /\ proto[name] = "original"
          /\ trace' = CallOriginal(this, name, params)
          /\ last' = Call(proto[name], this, name, params, NoParams,
                          Result(FALSE))
          /\ UNCHANGED << dictionary, subs, status, paired >>
       \/ /\ proto[name] = "initWrapper"
          /\ LET r == InitWrapper(this, name, params, dictionary, subs,
                                  level, fault)
             IN  /\ dictionary' = r.map
                 /\ subs' = r.live
                 /\ trace' = r.tr
                 /\ last' = [ Call(proto[name], this, name, params, NoParams,
                                   Result(r.threw))
                                EXCEPT !.fault = fault ]
                 /\ paired' = [ paired EXCEPT
                                  ![this] = PairedAfter(status[this], @,
                                                        "initWrapper", r.threw) ]
          /\ status' = [ status EXCEPT ![this] = "active" ]
       \/ /\ proto[name] = "deinitWrapper"
          /\ LET r == DeinitWrapper(this, name, params, dictionary, subs,
                                    fault)
             IN  /\ dictionary' = r.map
                 /\ subs' = r.live
                 /\ trace' = r.tr
                 /\ last' = [ Call(proto[name], this, name, params, NoParams,
                                   Result(r.threw))
                                EXCEPT !.fault = fault ]
                 /\ paired' = [ paired EXCEPT
                                  ![this] = PairedAfter(status[this], @,
                                                        "deinitWrapper", r.threw) ]
          /\ status' = [ status EXCEPT ![this] = "inactive" ]
    /\ UNCHANGED << proto, methodImpl, whenMapHas, level >>

\* ------------------------------------------------------------ observables
\* The listener of one observation, run by mobx when the computed value
\* changed from `old` to `new`: it applies the method when newValue is true.
Listener(s, old, new) ==
    IF old # new /\ new
    THEN << Event("reaction", s.owner, s.originalFunction, s.key,
                  s.parameters, s.n) >>
    ELSE << >>

\* What the live observations do when the observables change.
RECURSIVE Reactions(_, _, _)
Reactions(live, lvl, lvl2) ==
    IF live = {} THEN << >>
    ELSE LET s == CHOOSE t \in live : TRUE
         IN  Listener(s, Eval(s.predicate, s.owner, lvl),
                         Eval(s.predicate, s.owner, lvl2))
             \o Reactions(live \ {s}, lvl, lvl2)

\* The global observable is assigned a new value.
SetLevel(v) ==
    /\ v # level
    /\ level' = v
    /\ trace' = Reactions(subs, level, v)
    /\ last' = Call("setLevel", "", "", <<level, v>>, NoParams, "return")
    /\ UNCHANGED << proto, methodImpl, whenMapHas, dictionary, subs,
                    status, paired, calls >>

\* ------------------------------------------------------------ manual call
\* instance[propertyName](...args): the decorated method called directly.
ManualCall(this, propertyName, args) ==
    /\ trace' = << Event("manual", this, methodImpl[propertyName],
                        propertyName, args, 0) >>
    /\ last' = Call("manual", this, propertyName, args, NoParams, "return")
    /\ UNCHANGED << proto, methodImpl, whenMapHas, dictionary, subs, level,
                    status, paired, calls >>

\* ---------------------------------------------------------- specification
Next ==
    \/ \E propertyName \in PropertyNames, b \in Bindings,
          initFunctionName \in InitFunctionNames,
          deinitFunctionName \in DeinitFunctionNames :
            Decorate(propertyName,
                     when(b.predicate, b.parameters, initFunctionName,
                          deinitFunctionName))
    \/ \E this \in Instances, name \in HookNames, params \in ArgLists :
            CallHook(this, name, params, "none")
    \/ \E v \in Levels : SetLevel(v)
    \/ \E this \in Instances, propertyName \in ManualNames,
          args \in ManualArgLists :
            ManualCall(this, propertyName, args)

Spec == Init /\ [][Next]_vars

\* The same program with an original deinitializer or a method body that
\* throws during a call of a hook.
NextFaults ==
    \/ \E propertyName \in PropertyNames, b \in Bindings,
          initFunctionName \in InitFunctionNames,
          deinitFunctionName \in DeinitFunctionNames :
            Decorate(propertyName,
                     when(b.predicate, b.parameters, initFunctionName,
                          deinitFunctionName))
    \/ \E this \in Instances, name \in HookNames, fault \in Faults :
            CallHook(this, name, << >>, fault)
    \/ \E v \in Levels : SetLevel(v)

SpecFaults == Init /\ [][NextFaults]_vars

\* ----------------------------------------------------- reading the state
\* How many entries of a trace are the given event on the given instance
\* for the given key.
CountEvents(tr, ev, this, key) ==
    Cardinality({ k \in 1..Len(tr) :
                    tr[k].ev = ev /\ tr[k].this = this /\ tr[k].key = key })

\* How many times the last call applied the bound method automatically.
AutoFires(this, key) ==
    CountEvents(trace, "immediate", this, key)
        + CountEvents(trace, "reaction", this, key)

\* No wrapper has run on any instance but `this`.
OnlyInstance(this) == \A i \in Instances \ {this} : status[i] = "fresh"

\* Every instance's init / deinit calls have alternated.
AllPaired == \A i \in Instances : paired[i]

\* The live observations an instance's activations created.
LiveOf(this) == { s \in subs : s.owner = this }

\* ----------------------------------------------------------------- claims
\* C1: with every instance's init / deinit calls properly paired, an
\* instance that has been deactivated holds no live subscription, and no
\* change of the predicate fires the bound method on it.
C1_DeactivatedHoldsNoSubscription ==
    AllPaired =>
        \A i \in Instances :
            status[i] = "inactive" =>
                /\ LiveOf(i) = {}
                /\ last.op = "setLevel" =>
                      \A k \in 1..Len(dictionary) :
                          CountEvents(trace, "reaction", i,
                                      dictionary[k].key) = 0

\* C2: for a single instance whose activations and deactivations alternate:
\* while it is deactivated no change of the predicate fires the method; a
\* re-activation fires each binding whose predicate is true exactly once
\* (and no other) and leaves the binding observed again, so that
\* transitions fire it as before.
C2_SingleInstanceCycle ==
    [][ \A i \in Instances :
          (OnlyInstance(i)' /\ paired'[i]) =>
            /\ (status[i] = "inactive" /\ last'.op = "setLevel") =>
                  \A k \in 1..Len(dictionary) :
                      CountEvents(trace', "reaction", i,
                                  dictionary[k].key) = 0
            /\ (status[i] = "inactive" /\ status'[i] = "active") =>
                  \A k \in 1..Len(dictionary) :
                      /\ AutoFires(i, dictionary[k].key)' =
                            IF Eval(dictionary[k].predicate, i, level)
                            THEN 1 ELSE 0
                      /\ \E s \in LiveOf(i)' : s.key = dictionary[k].key
      ]_vars

\* C3: for a single instance with paired calls, the disposer of a binding
\* the wrappers' loops visit is set exactly while the instance is active
\* (its init wrapper ran more recently than its deinit wrapper).
C3_DisposerSetIffActive ==
    \A i \in Instances :
        (OnlyInstance(i) /\ paired[i]) =>
            \A k \in 1..Len(dictionary) :
                ForInVisits(dictionary[k].key) =>
                    ( dictionary[k].disposer # NoDisposer
                        <=> status[i] = "active" )

\* C4: one call of the wrapped init hook runs the class's original init
\* exactly once and starts exactly one subscription for every binding of
\* the dictionary; one call of the wrapped deinit hook runs the original
\* deinit exactly once.
C4_OneSubscriptionPerBinding ==
    /\ last.op = "initWrapper" =>
          /\ CountEvents(trace, "original", last.this, "") = 1
          /\ \A k \in 1..Len(dictionary) :
                CountEvents(trace, "observe", last.this,
                            dictionary[k].key) = 1
    /\ last.op = "deinitWrapper" =>
          CountEvents(trace, "original", last.this, "") = 1

\* C5: a decoration of the method name that was decorated just before
\* returns without throwing and changes nothing, and the dictionary holds
\* exactly one descriptor for that name.
C5_DuplicateDecorationKeepsFirst ==
    [][ ( /\ last.op = "decorate" /\ last.result = "return"
          /\ last'.op = "decorate" /\ last'.name = last.name ) =>
            /\ last'.result = "return"
            /\ dictionary' = dictionary
            /\ Cardinality({ k \in 1..Len(dictionary') :
                               dictionary'[k].key = last'.name }) = 1
      ]_vars

\* C6: a call of the init wrapper applies the bound method of every binding
\* whose predicate is true at that moment exactly once, and that of every
\* other binding not at all.
C6_ImmediateFireExactlyOnce ==
    last.op = "initWrapper" =>
        \A k \in 1..Len(dictionary) :
            AutoFires(last.this, dictionary[k].key) =
                IF Eval(dictionary[k].predicate, last.this, level)
                THEN 1 ELSE 0

\* C7: with paired calls, when the observable changes, a binding the loops
\* visit fires on every active instance exactly once if its predicate went
\* from false to true there, and not at all otherwise.
C7_OneFirePerRisingEdge ==
    (last.op = "setLevel" /\ AllPaired) =>
        \A i \in Instances :
            status[i] = "active" =>
                \A k \in 1..Len(dictionary) :
                    ForInVisits(dictionary[k].key) =>
                        CountEvents(trace, "reaction", i, dictionary[k].key) =
                            IF /\ ~Eval(dictionary[k].predicate, i,
                                        last.args[1])
                               /\ Eval(dictionary[k].predicate, i,
                                       last.args[2])
                            THEN 1 ELSE 0

\* C8: a call of the init or the deinit wrapper first calls the class's
\* original hook, with the receiver and the arguments of the call, and
\* calls it only that once: every observation, firing and disposal of the
\* call comes after it.
C8_OriginalHookFirstAndOnce ==
    last.op \in {"initWrapper", "deinitWrapper"} =>
        /\ Len(trace) >= 1
        /\ trace[1] = Event("original", last.this, last.name, "",
                            last.args, 0)
        /\ \A k \in 2..Len(trace) : trace[k].ev # "original"

\* A deinit wrapper, called with an argument, that disposed an observation.
C8_Witness ==
    /\ last.op = "deinitWrapper"
    /\ last.args = <<7>>
    /\ \E k \in 1..Len(trace) : trace[k].ev = "dispose"

\* C9: a decoration whose initFunctionName or deinitFunctionName names no
\* method of the target throws and leaves the dictionary as it was.
C9_MissingHookAlwaysThrows ==
    [][ ( /\ last'.op = "decorate"
          /\ \/ proto[last'.params.initFunctionName] = "absent"
             \/ proto[last'.params.deinitFunctionName] = "absent" ) =>
            /\ last'.result \in {"throwInit", "throwDeinit"}
            /\ dictionary' = dictionary
      ]_vars

\* C10: the class's methods stay the functions its body defined; every
\* automatic firing applies the function installed under the binding's
\* name, to an instance; a manual call can be made in every state, applies
\* that same function to its receiver, and leaves the hooks, the methods,
\* the registry and the observations as they were.
C10_ManualCallSameMethodNoEffect ==
    /\ [] ( /\ \A p \in PropertyNames : methodImpl[p] = MethodBody(p)
            /\ \A k \in 1..Len(trace) :
                  trace[k].ev \in {"immediate", "reaction"} =>
                      /\ trace[k].what = methodImpl[trace[k].key]
                      /\ trace[k].this \in Instances
            /\ last.op = "manual" =>
                  trace = << Event("manual", last.this,
                                   methodImpl[last.name], last.name,
                                   last.args, 0) >>
            /\ \A i \in Instances, p \in ManualNames,
                  a \in ManualArgLists :
                    ENABLED ManualCall(i, p, a) )
    /\ [][ last'.op = "manual" =>
              UNCHANGED << proto, methodImpl, whenMapHas, dictionary, subs >>
         ]_vars

\* A manual call of a decorated method on a deactivated instance while the
\* method's predicate is false there and another observation is live.
C10_Witness ==
    /\ last.op = "manual"
    /\ status[last.this] = "inactive"
    /\ subs # {}
    /\ \E k \in 1..Len(dictionary) :
          /\ dictionary[k].key = last.name
          /\ ~Eval(dictionary[k].predicate, last.this, level)

\* C11: with paired calls and whatever the interleaving of the instances'
\* hooks, when a visited binding's predicate goes from false to true on an
\* active instance, the bound method is applied to that instance with the
\* recorded parameters; and a deactivation of one instance leaves the live
\* observations of every other active instance in place.
C11_ActiveInstancesFireIndependently ==
    /\ [](( last.op = "setLevel" /\ AllPaired) =>
            \A i \in Instances :
                status[i] = "active" =>
                    \A k \in 1..Len(dictionary) :
                        ( /\ ForInVisits(dictionary[k].key)
                          /\ ~Eval(dictionary[k].predicate, i, last.args[1])
                          /\ Eval(dictionary[k].predicate, i, last.args[2]) )
                        => \E e \in 1..Len(trace) :
                              /\ trace[e].ev = "reaction"
                              /\ trace[e].this = i
                              /\ trace[e].key = dictionary[k].key
                              /\ trace[e].args = dictionary[k].parameters)
    /\ [][ (last'.op = "deinitWrapper" /\ AllPaired') =>
              \A j \in Instances \ {last'.this} :
                  status[j] = "active" => LiveOf(j)' = LiveOf(j) ]_vars

\* The class's init hook and its deinit hook are both wrappers.
BothWrapped ==
    /\ \E h \in InitFunctionNames : proto[h] = "initWrapper"
    /\ \E h \in DeinitFunctionNames : proto[h] = "deinitWrapper"

\* C12: in every reachable state, also after a decoration that threw, the
\* class has a dictionary in whenMap only if both its init hook and its
\* deinit hook have been replaced by the wrappers.
C12_TableOnlyWithBothWrappers ==
    whenMapHas => BothWrapped

\* C13: after a call of the init wrapper that returned, every binding of
\* the dictionary, whether its name is a string or a symbol, has a live
\* observation of the call's instance, and the dictionary holds that
\* observation's disposer.
C13_EveryBindingSubscribed ==
    (last.op = "initWrapper" /\ last.result = "return") =>
        \A k \in 1..Len(dictionary) :
            /\ dictionary[k].disposer \in subs
            /\ dictionary[k].disposer.owner = last.this
            /\ dictionary[k].disposer.key = dictionary[k].key

\* The live observations of an instance on one binding.
LiveOn(this, key) == { s \in LiveOf(this) : s.key = key }

\* C14: a call of the init wrapper on an instance that is active and has one
\* live observation on a binding adds a second live observation on it and
\* keeps the first; a binding with two live observations on an instance
\* fires twice there when its predicate goes from false to true; and a
\* deinit wrapper call then disposes only the observation whose disposer
\* the dictionary holds: the other one stays live.
C14_DoubleInitOverlaps ==
    /\ [][ \A i \in Instances : \A k \in 1..Len(dictionary) :
              ( /\ last'.op = "initWrapper"
                /\ last'.this = i
                /\ status[i] = "active"
                /\ Cardinality(LiveOn(i, dictionary[k].key)) = 1 )
              => /\ LiveOn(i, dictionary[k].key)
                      \subseteq LiveOn(i, dictionary[k].key)'
                 /\ Cardinality(LiveOn(i, dictionary[k].key)') = 2
                 /\ dictionary'[k].disposer
                      \in LiveOn(i, dictionary[k].key)'
                            \ LiveOn(i, dictionary[k].key) ]_vars
    /\ [](last.op = "setLevel" =>
            \A i \in Instances : \A k \in 1..Len(dictionary) :
                ( /\ Cardinality(LiveOn(i, dictionary[k].key)) = 2
                  /\ ~Eval(dictionary[k].predicate, i, last.args[1])
                  /\ Eval(dictionary[k].predicate, i, last.args[2]) )
                => CountEvents(trace, "reaction", i, dictionary[k].key) = 2)
    /\ [][ \A i \in Instances : \A k \in 1..Len(dictionary) :
              ( /\ last'.op = "deinitWrapper"
                /\ last'.this = i
                /\ Cardinality(LiveOn(i, dictionary[k].key)) = 2
                /\ dictionary[k].disposer \in LiveOn(i, dictionary[k].key) )
              => /\ LiveOn(i, dictionary[k].key)'
                      = LiveOn(i, dictionary[k].key) \ {dictionary[k].disposer}
                 /\ Cardinality(LiveOn(i, dictionary[k].key)') = 1 ]_vars

\* A single instance was activated twice and then deactivated once: its
\* later observation is disposed and its earlier one is live.
C14_Witness ==
    /\ last.op = "deinitWrapper"
    /\ OnlyInstance(last.this)
    /\ \E k \in 1..Len(dictionary) :
          /\ dictionary[k].disposer.owner = last.this
          /\ dictionary[k].disposer \notin subs
          /\ Cardinality(LiveOn(last.this, dictionary[k].key)) = 1

\* A dictionary without the disposers its descriptors hold.
Registered(dict) ==
    [ k \in 1..Len(dict) |->
        [ key |-> dict[k].key, predicate |-> dict[k].predicate,
          originalFunction |-> dict[k].originalFunction,
          parameters |-> dict[k].parameters ] ]

\* C15 as stated: a step that is no decoration leaves whenMap and every
\* descriptor of the dictionary as they are.
C15_TablesChangedOnlyByDecoration ==
    [][ last'.op # "decorate" =>
          /\ whenMapHas' = whenMapHas
          /\ dictionary' = dictionary ]_vars

\* C15, amended: a step that is no decoration leaves whenMap, the names in
\* the dictionary and the predicate, the parameters and the method of every
\* descriptor as they are; only a call of a hook wrapper changes a
\* descriptor, and only its disposer.
C15_RegistrationsChangedOnlyByDecoration ==
    [][ last'.op # "decorate" =>
          /\ whenMapHas' = whenMapHas
          /\ Registered(dictionary') = Registered(dictionary)
          /\ last'.op \notin {"initWrapper", "deinitWrapper"} =>
                dictionary' = dictionary ]_vars

\* A call of the init wrapper has changed the disposer of a descriptor.
C15_Witness ==
    /\ last.op = "initWrapper"
    /\ \E k \in 1..Len(dictionary) :
          /\ dictionary[k].disposer # NoDisposer
          /\ dictionary[k].disposer.owner = last.this
          /\ dictionary[k].disposer \in subs

IndexOf(dict, key) ==
    IF \E k \in 1..Len(dict) : dict[k].key = key
    THEN CHOOSE k \in 1..Len(dict) : dict[k].key = key
    ELSE 0

\* C17: when the method load throws in the immediate firing of a call of
\* the init wrapper, the call throws, that firing is the last thing the
\* call did, and every binding that comes after load in the dictionary is
\* left without an observation of that call: none is started for it and its
\* stored disposer is the one it had.
C17_ThrowingMethodEndsActivation ==
    [][ \A i \in Instances :
          (last'.op = "initWrapper" /\ last'.this = i /\ last'.fault = "load")
          => /\ last'.result = "throw"
             /\ trace'[Len(trace')].ev = "immediate"
             /\ trace'[Len(trace')].key = "load"
             /\ trace'[Len(trace')].this = i
             /\ \A k \in 1..Len(dictionary) :
                   k > IndexOf(dictionary, "load") =>
                       /\ CountEvents(trace', "observe", i,
                                      dictionary[k].key) = 0
                       /\ LiveOn(i, dictionary[k].key)'
                            = LiveOn(i, dictionary[k].key)
                       /\ dictionary'[k] = dictionary[k] ]_vars

\* load threw in a call of the init wrapper on an instance with no live
\* observation, and the string-named binding after it has none of that call.
C17_Witness ==
    /\ last.op = "initWrapper"
    /\ last.result = "throw"
    /\ Len(dictionary) = 2
    /\ dictionary[1].key = "load"
    /\ dictionary[2].key = "save"
    /\ Eval(dictionary[2].predicate, last.this, level)
    /\ LiveOn(last.this, "load") # {}
    /\ LiveOn(last.this, "save") = {}

\* C18: a call of the deinit wrapper on the single instance of the class,
\* active after paired calls, leaves no observation of the instance live,
\* whether the class's original deinitializer returns or throws.
C18_DeinitDisposesEvenIfOriginalThrows ==
    [][ \A i \in Instances :
          ( /\ last'.op = "deinitWrapper"
            /\ last'.this = i
            /\ OnlyInstance(i)
            /\ paired[i]
            /\ status[i] = "active" )
          => LiveOf(i)' = {} ]_vars

============================================================================
